---- MODULE Spec2Model ----
(***************************************************************************)
(* Model of the receipt-admission core of indexer-service-rs:              *)
(*   - native/src/signature_verification.rs  (SignatureVerifier)           *)
(*   - service/src/tap_manager.rs            (TapManager)                  *)
(*                                                                         *)
(* Cryptography is modelled symbolically.  A public key is a small         *)
(* integer; the keys 1..NKeys are held by wallets, the keys above NKeys    *)
(* are keys nobody in the model holds (they only appear as the result of   *)
(* recovering a key from data the signature was not made for).  Keccak is  *)
(* a toy 32-byte hash that is collision free on the inputs of the model    *)
(* (KeccakCollisionFree), which is the collision resistance every claim    *)
(* about addresses presupposes.                                            *)
(***************************************************************************)
EXTENDS Integers, Sequences, FiniteSets, Bags, TLC

\* ------------------------------------------------------------------ bounds
NProcs == 2     \* concurrent callers of SignatureVerifier::verify
NKeys  == 2     \* wallets (key pairs) in the model
NMsgs  == 2     \* distinct messages

WalletKeys == 1..NKeys
PubKeys    == 1..(2 * NKeys)
Msgs       == 1..NMsgs

\* ------------------------------------------------------------------ hashing
HashLen   == 32   \* bytes of a keccak-256 digest
AddrStart == 12   \* pk_hash[12..]: the address is the last 20 bytes

RECURSIVE Fold(_)
Fold(bytes) ==
    IF bytes = <<>> THEN 7
    ELSE (Fold(SubSeq(bytes, 1, Len(bytes) - 1)) * 31 + bytes[Len(bytes)]) % 251

\* keccak(..): a 32-byte digest of a byte string.
keccak(bytes) == [i \in 1..HashLen |-> (Fold(bytes) * (2 * i + 1) + i) % 256]

\* PublicKey::serialize_uncompressed: the 0x04 prefix, then the coordinates.
serialize_uncompressed(pk) == <<4, pk, (pk * pk + 1) % 256>>

\* The Ethereum address of a key, as a wallet reports it: the last 20 bytes
\* of the keccak of the public key without its format prefix.
WalletAddressOf ==
    [pk \in PubKeys |->
        LET h == keccak(Tail(serialize_uncompressed(pk)))
        IN  SubSeq(h, HashLen - 19, HashLen)]
WalletAddress(pk) == WalletAddressOf[pk]

\* The bytes of message m, and the digest verify() builds from them:
\* Message::from_slice(&keccak(message).to_fixed_bytes())
MsgBytes(m) == <<77, m>>
MessageDigestOf == [m \in Msgs |-> keccak(MsgBytes(m))]
MessageDigest(m) == MessageDigestOf[m]

\* ---------------------------------------------------------------- signatures
\* A RecoverableSignature (r, s, recovery id).  An "ecdsa" signature was made
\* with wallet key `key` over the digest of message `signed`; `highS` says that
\* s was replaced by n - s (the malleated form).  `recid` is "ok" when the
\* recovery id is the one that leads back to the signing key for the s given,
\* "flip" when it names the opposite curve point, and "overflow" when it asks
\* for the point at r + n, which does not exist.  A "bad" signature has an
\* (r, s) that no key validates and from which no point can be rebuilt.
BadSig == [kind |-> "bad"]
RecoveryIds == {"ok", "flip", "overflow"}
EcdsaSigs ==
    [kind : {"ecdsa"}, key : WalletKeys, signed : Msgs,
     highS : BOOLEAN, recid : RecoveryIds]
Sigs == EcdsaSigs \cup {BadSig}

Sign(k, m) ==
    [kind |-> "ecdsa", key |-> k, signed |-> m, highS |-> FALSE, recid |-> "ok"]

NoKey == 0
\* The key nobody holds that recovery yields from data signed by k.
ForeignKey(k) == NKeys + k

\* The public keys Q for which (r, s) satisfies the ECDSA equation on digest.
Candidates(digest, sig) ==
    IF sig.kind = "bad" THEN {}
    ELSE IF digest = MessageDigest(sig.signed)
         THEN {sig.key, ForeignKey(sig.key)}
         ELSE {ForeignKey(sig.key)}

\* SECP256K1.recover(&message, signature): NoKey stands for Err(_).
recover(digest, sig) ==
    IF sig.kind = "bad" THEN NoKey
    ELSE IF sig.recid = "overflow" THEN NoKey
    ELSE IF digest = MessageDigest(sig.signed) /\ sig.recid = "ok"
         THEN sig.key
         ELSE ForeignKey(sig.key)

\* RecoverableSignature::to_standard: the recovery id is dropped.
to_standard(sig) ==
    IF sig.kind = "bad" THEN sig
    ELSE [kind |-> "ecdsa", key |-> sig.key, signed |-> sig.signed,
          highS |-> sig.highS]

\* SECP256K1.verify(&message, &sig, pk).is_ok(): the ECDSA equation holds and
\* s is in lower-S form (libsecp256k1 rejects the malleated form).
verify_ecdsa(digest, std, pk) ==
    /\ std.kind = "ecdsa"
    /\ ~std.highS
    /\ pk \in Candidates(digest, std)

\* ------------------------------------------------------- SignatureVerifier
VARIABLES
    address,     \* the address SignatureVerifier::new was given
    signer,      \* the value behind the ArcSwap<Signer>
    inflight,    \* the calls that matched and have their store pending (a
                 \* bag: two callers may hold the same arguments and snapshot)
    last,        \* the verify call that returned most recently
    upgradedBy   \* the call whose store first replaced Signer::Address

vvars == <<address, signer, inflight, last, upgradedBy>>

SignerAddress(a)   == [tag |-> "Address", addr |-> a]
SignerPublicKey(k) == [tag |-> "PublicKey", key |-> k]

OkTrue     == "Ok(true)"
OkFalse    == "Ok(false)"
ErrRecoverAsFalse == "Ok(false)"

\* .map_err(|_| "Failed to recover signature")?
ErrRecover == "Err(Failed to recover signature)"

NoCall == [m |-> 0]

DerivedAddressHead(pk) ==
    LET ser     == serialize_uncompressed(pk)
        pk_hash == keccak(Tail(ser))
    IN  SubSeq(pk_hash, 1, Len(pk_hash) - AddrStart)

\* let ser = ..serialize_uncompressed(); let pk_hash = keccak(&ser[1..]);
\* the address compared is &pk_hash[12..]
DerivedAddressOf ==
    [pk \in PubKeys |->
        LET ser     == serialize_uncompressed(pk)
            pk_hash == keccak(Tail(ser))
        IN  SubSeq(pk_hash, AddrStart + 1, Len(pk_hash))]
DerivedAddress(pk) == DerivedAddressOf[pk]

AddrEqualAlways(derived, addr) == TRUE

\* let equal = &pk_hash[12..] == addr;
AddrEqual(derived, addr) == derived = addr

FastPathTrusting(m, sig, pk) == OkTrue

\* The fast path: Ok(SECP256K1.verify(&message, &signature.to_standard(), signer).is_ok())
FastPath(m, sig, pk) ==
    IF verify_ecdsa(MessageDigest(m), to_standard(sig), pk) THEN OkTrue ELSE OkFalse

UpgradeValueRechecked(recovered_signer, addr, m, sig) ==
    IF FastPath(m, sig, recovered_signer) = OkTrue
    THEN SignerPublicKey(recovered_signer)
    ELSE SignerAddress(addr)

\* What self.signer.store(..) is given: Arc::new(Signer::PublicKey(recovered_signer)).
\* addr, m and sig are the other values in scope at the store.
UpgradeValue(recovered_signer, addr, m, sig) == SignerPublicKey(recovered_signer)

AddressArmResultIfChanged(equal, current) ==
    IF equal /\ current.tag = "Address" THEN OkTrue ELSE OkFalse

\* Ok(equal), the value of the Signer::Address arm; current is the Signer the
\* store (if any) replaced.
AddressArmResult(equal, current) == IF equal THEN OkTrue ELSE OkFalse

\* verify(message, signature) as a function of the Signer it loads: the value
\* the call returns.
VerifyResult(snap, m, sig) ==
    IF snap.tag = "PublicKey" THEN FastPath(m, sig, snap.key)
    ELSE LET recovered_signer == recover(MessageDigest(m), sig) IN
         IF recovered_signer = NoKey THEN ErrRecover
         ELSE AddressArmResult(
                  AddrEqual(DerivedAddress(recovered_signer), snap.addr), snap)

\* The record of a call that returned: its arguments, the Signer it loaded,
\* its result, whether it stored, and the Signer just before it returned.
Returned(m, sig, snap, res, stored) ==
    [m |-> m, sig |-> sig, snap |-> snap, res |-> res, stored |-> stored,
     pre |-> signer]

\* SignatureVerifier::new(signer)
VInit ==
    /\ address \in {WalletAddress(k) : k \in WalletKeys}
    /\ signer = SignerAddress(address)
    /\ inflight = EmptyBag
    /\ last = NoCall
    /\ upgradedBy = NoCall

\* A caller is free to call verify().
SomeCallerIdle == BagCardinality(inflight) < NProcs

\* verify(), Signer::PublicKey arm, by any free caller.  The load is the
\* call's only access to shared state, so load, check and return are one step.
VerifyPublicKey(m, sig) ==
    /\ SomeCallerIdle
    /\ signer.tag = "PublicKey"
    /\ last' = Returned(m, sig, signer, FastPath(m, sig, signer.key), FALSE)
    /\ UNCHANGED <<address, signer, inflight, upgradedBy>>

\* verify(), Signer::Address arm, by any free caller: recover fails, map_err(..)?
VerifyRecoverFails(m, sig) ==
    /\ SomeCallerIdle
    /\ signer.tag = "Address"
    /\ recover(MessageDigest(m), sig) = NoKey
    /\ last' = Returned(m, sig, signer, ErrRecover, FALSE)
    /\ UNCHANGED <<address, signer, inflight, upgradedBy>>

\* verify(), Signer::Address arm, by any free caller: the derived address
\* differs, no store, Ok(equal).  Again the load is the only shared access.
VerifyMismatch(m, sig) ==
    LET recovered_signer == recover(MessageDigest(m), sig) IN
    /\ SomeCallerIdle
    /\ signer.tag = "Address"
    /\ recovered_signer # NoKey
    /\ ~AddrEqual(DerivedAddress(recovered_signer), signer.addr)
    /\ last' = Returned(m, sig, signer, AddressArmResult(FALSE, signer), FALSE)
    /\ UNCHANGED <<address, signer, inflight, upgradedBy>>

\* verify(), Signer::Address arm, by any free caller: the derived address
\* matches; the caller holds the snapshot it loaded and goes on to the store.
VerifyMatch(m, sig) ==
    LET recovered_signer == recover(MessageDigest(m), sig) IN
    /\ SomeCallerIdle
    /\ signer.tag = "Address"
    /\ recovered_signer # NoKey
    /\ AddrEqual(DerivedAddress(recovered_signer), signer.addr)
    /\ inflight' = inflight (+) SetToBag({[m |-> m, sig |-> sig, snap |-> signer,
                                            recovered |-> recovered_signer]})
    /\ UNCHANGED <<address, signer, last, upgradedBy>>

\* The calls whose store is pending, and the value such a call will store.
Storing == BagToSet(inflight)
Pending(c) == UpgradeValue(c.recovered, c.snap.addr, c.m, c.sig)

StoreWaitsForSnapshot(snap, current) == snap = current

\* ArcSwap::store replaces the pointer whatever the Signer holds by now (snap
\* is what the caller loaded, current what is there): no compare, no lock.
StoreReady(snap, current) == TRUE

\* self.signer.store(Arc::new(Signer::PublicKey(recovered_signer))); Ok(equal)
Store(c) ==
    /\ c \in Storing
    /\ StoreReady(c.snap, signer)
    /\ signer' = Pending(c)
    /\ last' = Returned(c.m, c.sig, c.snap, AddressArmResult(TRUE, signer), TRUE)
    /\ upgradedBy' = IF signer.tag = "Address" /\ signer'.tag = "PublicKey"
                     THEN [m |-> c.m, sig |-> c.sig, recovered |-> c.recovered]
                     ELSE upgradedBy
    /\ inflight' = inflight (-) SetToBag({c})
    /\ UNCHANGED address

VNext ==
    \/ \E m \in Msgs, sig \in Sigs : VerifyPublicKey(m, sig)
    \/ \E m \in Msgs, sig \in Sigs : VerifyRecoverFails(m, sig)
    \/ \E m \in Msgs, sig \in Sigs : VerifyMismatch(m, sig)
    \/ \E m \in Msgs, sig \in Sigs : VerifyMatch(m, sig)
    \/ \E c \in Storing : Store(c)

\* ---------------------------------------------------------------- TapManager
NTasks  == 2    \* invocations of verify_and_store_receipt
NAllocs == 2    \* distinct allocation ids

Tasks == 1..NTasks

\* A 20-byte allocation id.
AllocationId(a) == [i \in 1..20 |-> (a * 37 + i * 11) % 256]
AllocIds == {AllocationId(a) : a \in 1..NAllocs}

NTimestamps == 2  \* distinct timestamp_ns values
Timestamps == 1..NTimestamps

\* Receipt { allocation_id, timestamp_ns } (nonce and value are carried along
\* and take no part in any decision).
ReceiptMessages == [allocation_id : AllocIds, timestamp_ns : Timestamps]

\* The Eip712Domain the TapManager was built with, and another deployment's.
DomainSeparator == "TAP"
Domains == {"TAP", "other"}

\* EIP712SignedMessage::new(domain, message, wallet)
SignReceipt(d, msg, k) ==
    [message |-> msg,
     signature |-> [kind |-> "ecdsa", key |-> k, domain |-> d, signed |-> msg]]

\* SignedReceipts on the wire: signed by a wallet under some domain, or
\* carrying a signature no key can be recovered from.
Receipts ==
    {SignReceipt(d, msg, k) : d \in Domains, msg \in ReceiptMessages, k \in WalletKeys}
    \cup {[message |-> msg, signature |-> BadSig] : msg \in ReceiptMessages}

NoAddress == <<>>

recover_signerOrZero(receipt, domain) ==
    LET sig == receipt.signature IN
    IF sig.kind = "bad" THEN [i \in 1..20 |-> 0]
    ELSE IF sig.domain = domain /\ sig.signed = receipt.message
         THEN WalletAddress(sig.key)
         ELSE WalletAddress(ForeignKey(sig.key))

\* receipt.recover_signer(domain): the address of the key recovered from the
\* EIP-712 digest of the message under `domain`; NoAddress stands for Err(_).
recover_signer(receipt, domain) ==
    LET sig == receipt.signature IN
    IF sig.kind = "bad" THEN NoAddress
    ELSE IF sig.domain = domain /\ sig.signed = receipt.message
         THEN WalletAddress(sig.key)
         ELSE WalletAddress(ForeignKey(sig.key))

Senders == {WalletAddress(k) : k \in WalletKeys}

HexDigits ==
    <<"0", "1", "2", "3", "4", "5", "6", "7", "8", "9", "a", "b", "c", "d", "e", "f">>

RECURSIVE HexEncode(_)
HexEncode(bytes) ==
    IF bytes = <<>> THEN <<>>
    ELSE <<HexDigits[(Head(bytes) \div 16) + 1], HexDigits[(Head(bytes) % 16) + 1]>>
         \o HexEncode(Tail(bytes))

\* format!("{:?}", allocation_id): "0x" and the lowercase hex digits.
DebugFormat(addr) == <<"0", "x">> \o HexEncode(addr)

StripPrefixNone(str) == str

\* .strip_prefix("0x").unwrap()
StripPrefix(str) == SubSeq(str, 3, Len(str))

BigDecimalFromNarrowed(n) == [int_val |-> n % 2, scale |-> 0]

\* BigDecimal::from(u64): the integer, with scale 0.
BigDecimalFrom(n) == [int_val |-> n, scale |-> 0]

VARIABLES
    eligibleAllocations,  \* AllocationMonitor's current snapshot
    eligibleSenders,      \* EscrowMonitor's current snapshot
    task,                 \* per invocation: position, receipt, what it saw
    rows,                 \* table scalar_tap_receipts, in insertion order
    notifications         \* events sent on scalar_tap_receipt_notification

tvars == <<eligibleAllocations, eligibleSenders, task, rows, notifications>>

\* allocation_monitor.is_allocation_eligible(allocation_id)
is_allocation_eligible(allocation_id) == allocation_id \in eligibleAllocations

\* escrow_monitor.is_sender_eligible(&receipt_signer)
is_sender_eligible(sender) == sender \in eligibleSenders

\* QueryError::Other(anyhow::Error) with the message or source it wraps.
ErrAllocation(allocation_id) ==
    [ok |-> FALSE, kind |-> "QueryError::Other",
     cause |-> "allocation not eligible", about |-> allocation_id]
ErrRecoverSigner ==
    [ok |-> FALSE, kind |-> "QueryError::Other",
     cause |-> "recover_signer", about |-> <<>>]
ErrSender(sender) ==
    [ok |-> FALSE, kind |-> "QueryError::Other",
     cause |-> "sender not eligible", about |-> sender]
ErrStoreIgnored == [ok |-> TRUE, kind |-> "Ok", cause |-> "", about |-> <<>>]

\* .execute(&self.pgpool).await.map_err(|e| QueryError::Other(anyhow::Error::from(e)))?
ErrStore ==
    [ok |-> FALSE, kind |-> "QueryError::Other", cause |-> "sqlx", about |-> <<>>]
OkUnit == [ok |-> TRUE, kind |-> "Ok", cause |-> "", about |-> <<>>]
NoResult == [ok |-> FALSE, kind |-> "pending", cause |-> "", about |-> <<>>]

\* An invocation: where it is, its receipt, the steps it has taken in order,
\* the monitors' answers to it, the signer it recovered, and its result.
TaskState(pc_, receipt, steps, allocOk, receipt_signer, senderOk, result) ==
    [pc |-> pc_, receipt |-> receipt, steps |-> steps, allocOk |-> allocOk,
     receipt_signer |-> receipt_signer, senderOk |-> senderOk, result |-> result]

NoReceipt == [message |-> [allocation_id |-> <<>>, timestamp_ns |-> 0],
              signature |-> BadSig]
IdleTask == TaskState("idle", NoReceipt, <<>>, FALSE, NoAddress, FALSE, NoResult)

AllocationRejectedNever(eligible) == FALSE

\* if !self.allocation_monitor.is_allocation_eligible(allocation_id).await { return Err(..) }
AllocationRejected(eligible) == ~eligible

SenderRejectedNever(eligible) == FALSE

\* if !self.escrow_monitor.is_sender_eligible(&receipt_signer).await { return Err(..) }
SenderRejected(eligible) == ~eligible

\* The VALUES ($1, $2, $3) of the INSERT.
RowValues(receipt) ==
    [allocation_id |-> StripPrefix(DebugFormat(receipt.message.allocation_id)),
     timestamp_ns  |-> BigDecimalFrom(receipt.message.timestamp_ns),
     receipt       |-> receipt]

\* The row the table holds after the INSERT: the serial id the table assigns,
\* and (bookkeeping of the model) the invocation the row came from and
\* whether, when the row was written, a monitor no longer held the receipt's
\* allocation or sender.
StoredRow(values, i) ==
    [id |-> Len(rows) + 1, by |-> i,
     stale |-> \/ ~is_allocation_eligible(values.receipt.message.allocation_id)
               \/ ~is_sender_eligible(recover_signer(values.receipt, DomainSeparator)),
     allocation_id |-> values.allocation_id,
     timestamp_ns  |-> values.timestamp_ns,
     receipt       |-> values.receipt]

\* The table's insert trigger: pg_notify with {id, allocation_id, timestamp_ns}.
NotificationOf(row) ==
    [channel |-> "scalar_tap_receipt_notification", by |-> row.by,
     id |-> row.id, allocation_id |-> row.allocation_id,
     timestamp_ns |-> row.timestamp_ns.int_val]

InsertedUnlessPresent(table, row) ==
    IF \E n \in 1..Len(table) : table[n].receipt = row.receipt
    THEN table ELSE Append(table, row)

\* INSERT INTO scalar_tap_receipts .. VALUES ($1, $2, $3): one more row,
\* whatever the table already holds (the statement has no ON CONFLICT clause).
Inserted(table, row) == Append(table, row)

TInit ==
    /\ eligibleAllocations \in SUBSET AllocIds
    /\ eligibleSenders \in SUBSET Senders
    /\ task = [i \in Tasks |-> IdleTask]
    /\ rows = <<>>
    /\ notifications = <<>>

\* The call, up to the answer of the first await: the allocation is rejected.
AllocationIneligible(i, receipt) ==
    LET eligible == is_allocation_eligible(receipt.message.allocation_id) IN
    /\ task[i].pc = "idle"
    /\ AllocationRejected(eligible)
    /\ task' = [task EXCEPT ![i] =
                  TaskState("done", receipt, <<"allocation">>, eligible, NoAddress,
                            FALSE, ErrAllocation(receipt.message.allocation_id))]
    /\ UNCHANGED <<eligibleAllocations, eligibleSenders, rows, notifications>>

\* The call, up to the answer of the first await: the allocation passes.
AllocationEligible(i, receipt) ==
    LET eligible == is_allocation_eligible(receipt.message.allocation_id) IN
    /\ task[i].pc = "idle"
    /\ ~AllocationRejected(eligible)
    /\ task' = [task EXCEPT ![i] =
                  TaskState("recover", receipt, <<"allocation">>, eligible,
                            NoAddress, FALSE, NoResult)]
    /\ UNCHANGED <<eligibleAllocations, eligibleSenders, rows, notifications>>

\* receipt.recover_signer(..).map_err(..)? fails.
RecoverSignerFails(i) ==
    /\ task[i].pc = "recover"
    /\ recover_signer(task[i].receipt, DomainSeparator) = NoAddress
    /\ task' = [task EXCEPT ![i].pc = "done",
                            ![i].steps = Append(@, "recover"),
                            ![i].result = ErrRecoverSigner]
    /\ UNCHANGED <<eligibleAllocations, eligibleSenders, rows, notifications>>

\* receipt.recover_signer(..) yields receipt_signer.
RecoverSignerOk(i) ==
    LET receipt_signer == recover_signer(task[i].receipt, DomainSeparator) IN
    /\ task[i].pc = "recover"
    /\ receipt_signer # NoAddress
    /\ task' = [task EXCEPT ![i].pc = "sender",
                            ![i].steps = Append(@, "recover"),
                            ![i].receipt_signer = receipt_signer]
    /\ UNCHANGED <<eligibleAllocations, eligibleSenders, rows, notifications>>

\* The second await answers and the sender is rejected.
SenderIneligible(i) ==
    LET eligible == is_sender_eligible(task[i].receipt_signer) IN
    /\ task[i].pc = "sender"
    /\ SenderRejected(eligible)
    /\ task' = [task EXCEPT ![i].pc = "done",
                            ![i].steps = Append(@, "escrow"),
                            ![i].senderOk = eligible,
                            ![i].result = ErrSender(task[i].receipt_signer)]
    /\ UNCHANGED <<eligibleAllocations, eligibleSenders, rows, notifications>>

\* The second await answers and the sender passes.
SenderEligible(i) ==
    LET eligible == is_sender_eligible(task[i].receipt_signer) IN
    /\ task[i].pc = "sender"
    /\ ~SenderRejected(eligible)
    /\ task' = [task EXCEPT ![i].pc = "insert",
                            ![i].steps = Append(@, "escrow"),
                            ![i].senderOk = eligible]
    /\ UNCHANGED <<eligibleAllocations, eligibleSenders, rows, notifications>>

\* sqlx::query!(INSERT ..).execute(&self.pgpool).await succeeds; Ok(())
InsertOk(i) ==
    LET row == StoredRow(RowValues(task[i].receipt), i) IN
    /\ task[i].pc = "insert"
    /\ rows' = Inserted(rows, row)
    /\ notifications' = Append(notifications, NotificationOf(row))
    /\ task' = [task EXCEPT ![i].pc = "done",
                            ![i].steps = Append(@, "insert"),
                            ![i].result = OkUnit]
    /\ UNCHANGED <<eligibleAllocations, eligibleSenders>>

\* .execute(..).await fails: map_err(..)?
InsertFails(i) ==
    /\ task[i].pc = "insert"
    /\ task' = [task EXCEPT ![i].pc = "done",
                            ![i].steps = Append(@, "insert"),
                            ![i].result = ErrStore]
    /\ UNCHANGED <<eligibleAllocations, eligibleSenders, rows, notifications>>

AwaitingOrReturned(pc_) == pc_ \in {"recover", "sender", "insert", "done"}

\* The positions of an invocation that has started and has not yet reached
\* the INSERT: past the allocation check, past recover_signer (awaiting the
\* EscrowMonitor), or past the sender check with the query not yet executed.
BeforeInsert(pc_) == pc_ \in {"recover", "sender", "insert"}

\* The caller drops the future of verify_and_store_receipt (or the task is
\* abandoned) before the INSERT: the invocation takes no further step.
Cancel(i) ==
    /\ BeforeInsert(task[i].pc)
    /\ task' = [task EXCEPT ![i].pc = "cancelled"]
    /\ UNCHANGED <<eligibleAllocations, eligibleSenders, rows, notifications>>

\* The monitors' refresh loops replace their snapshots at any time.
RefreshAllocations(a) ==
    /\ eligibleAllocations' =
         IF a \in eligibleAllocations
         THEN eligibleAllocations \ {a} ELSE eligibleAllocations \cup {a}
    /\ UNCHANGED <<eligibleSenders, task, rows, notifications>>

RefreshSenders(s) ==
    /\ eligibleSenders' =
         IF s \in eligibleSenders
         THEN eligibleSenders \ {s} ELSE eligibleSenders \cup {s}
    /\ UNCHANGED <<eligibleAllocations, task, rows, notifications>>

TNext ==
    \/ \E i \in Tasks, receipt \in Receipts : AllocationIneligible(i, receipt)
    \/ \E i \in Tasks, receipt \in Receipts : AllocationEligible(i, receipt)
    \/ \E i \in Tasks : RecoverSignerFails(i)
    \/ \E i \in Tasks : RecoverSignerOk(i)
    \/ \E i \in Tasks : SenderIneligible(i)
    \/ \E i \in Tasks : SenderEligible(i)
    \/ \E i \in Tasks : InsertOk(i)
    \/ \E i \in Tasks : InsertFails(i)
    \/ \E i \in Tasks : Cancel(i)
    \/ \E a \in AllocIds : RefreshAllocations(a)
    \/ \E s \in Senders : RefreshSenders(s)

\* ------------------------------------------------------------ specifications
vars == <<vvars, tvars>>

\* The SignatureVerifier under concurrent callers.  The TapManager holds no
\* SignatureVerifier, so its state is left at rest with empty snapshots.
Init ==
    /\ VInit
    /\ TInit
    /\ eligibleAllocations = {}
    /\ eligibleSenders = {}
Next == VNext /\ UNCHANGED tvars
Spec == Init /\ [][Next]_vars

\* The TapManager under concurrent invocations and refreshing monitors, with
\* the SignatureVerifier at rest.
TapInit ==
    /\ TInit
    /\ VInit
    /\ address = WalletAddress(1)
TapNext == TNext /\ UNCHANGED vvars
TapSpec == TapInit /\ [][TapNext]_vars

\* ---------------------------------------------------------------- properties
\* The toy keccak has no collision among the public keys of the model, so an
\* address names at most one key (collision resistance of keccak-256).
KeccakCollisionFree ==
    \A j, k \in PubKeys : WalletAddress(j) = WalletAddress(k) => j = k

\* The wallet key the verifier's address belongs to.
KeyOfAddress == CHOOSE k \in WalletKeys : WalletAddress(k) = address

\* sig is what the wallet holding key k produces for message m.
CorrectlySigned(sig, k, m) == sig = Sign(k, m)

\* sig derives from a signature key k made over message m (in any form).
ProducedBy(sig, k, m) == sig.kind = "ecdsa" /\ sig.key = k /\ sig.signed = m

HasReturned == last # NoCall

\* C1: the Signer never goes from PublicKey back to Address: every step taken
\* from a state whose Signer is PublicKey leads to a state whose Signer is
\* PublicKey.
C1_Monotonic == [][signer.tag = "PublicKey" => signer'.tag = "PublicKey"]_vars

\* A racing caller stored after the upgrade and the Signer is still PublicKey.
C1_Witness ==
    /\ HasReturned
    /\ last.stored
    /\ last.pre.tag = "PublicKey"
    /\ signer.tag = "PublicKey"

\* C2: whenever the Signer is PublicKey(pk), the Ethereum address of pk is the
\* address the verifier was created with, and the upgrade was performed by a
\* call that recovered, from its own message and signature, a key with that
\* address; every store still pending is of such a key too.
C2_UpgradeOnlyOnMatch ==
    /\ signer.tag = "PublicKey" =>
         /\ WalletAddress(signer.key) = address
         /\ upgradedBy # NoCall
    /\ upgradedBy # NoCall =>
         /\ recover(MessageDigest(upgradedBy.m), upgradedBy.sig) = upgradedBy.recovered
         /\ WalletAddress(upgradedBy.recovered) = address
    /\ \A c \in Storing : WalletAddress(c.recovered) = address

C2_Witness ==
    /\ signer.tag = "PublicKey"
    /\ upgradedBy # NoCall
    /\ signer.key = upgradedBy.recovered

\* C3: a call with a signature correctly produced by the key of the verifier's
\* address over the message returns Ok(true), whichever Signer it loaded.
C3_ValidAlwaysTrue ==
    (HasReturned /\ CorrectlySigned(last.sig, KeyOfAddress, last.m))
        => last.res = OkTrue

\* The same message and signature returned Ok(true) from the Address arm (the
\* call that upgraded) and again from the PublicKey arm.
C3_Witness ==
    /\ HasReturned
    /\ upgradedBy # NoCall
    /\ last.snap.tag = "PublicKey"
    /\ CorrectlySigned(last.sig, KeyOfAddress, last.m)
    /\ upgradedBy.m = last.m
    /\ upgradedBy.sig = last.sig
    /\ last.res = OkTrue

\* C4: a call that loaded Signer::Address with a signature that a key other
\* than the one of the verifier's address produced (over any message, and also
\* when its s or recovery id was flipped afterwards) returns Ok(false) and
\* stores nothing: the Signer is still Address with the same address when it
\* returns, and no call with another key's signature is ever waiting to store.
C4_UnrelatedKeyRejected ==
    /\ (/\ HasReturned
        /\ last.snap.tag = "Address"
        /\ last.sig.kind = "ecdsa"
        /\ last.sig.key # KeyOfAddress
        /\ last.sig.recid # "overflow")
         => /\ last.res = OkFalse
            /\ ~last.stored
            /\ last.pre = SignerAddress(address)
            /\ signer = SignerAddress(address)
    /\ \A c \in Storing : c.sig.key = KeyOfAddress

C4_Witness ==
    /\ HasReturned
    /\ last.snap.tag = "Address"
    /\ last.sig.kind = "ecdsa"
    /\ last.sig.key # KeyOfAddress
    /\ CorrectlySigned(last.sig, last.sig.key, last.m)
    /\ last.res = OkFalse
    /\ signer = SignerAddress(address)

\* C5: a call that loaded Signer::PublicKey(pk) with a signature that pk's
\* holder did not produce over the given message returns Ok(false).
C5_CachedKeyRechecked ==
    (/\ HasReturned
     /\ last.snap.tag = "PublicKey"
     /\ ~ProducedBy(last.sig, last.snap.key, last.m))
        => last.res = OkFalse

C5_Witness ==
    /\ HasReturned
    /\ last.snap.tag = "PublicKey"
    /\ last.sig.kind = "ecdsa"
    /\ last.sig.key # last.snap.key
    /\ CorrectlySigned(last.sig, last.sig.key, last.m)
    /\ last.res = OkFalse

\* C6: a call returns Ok(true) only if its (r, s) satisfies the ECDSA equation
\* on the digest of its message under the key of the verifier's address.
C6_TrueOnlyIfValid ==
    (HasReturned /\ last.res = OkTrue)
        => KeyOfAddress \in Candidates(MessageDigest(last.m), last.sig)

\* Ok(true) from the PublicKey arm for a signature that is not the canonical one.
C6_Witness ==
    /\ HasReturned
    /\ last.res = OkTrue
    /\ last.snap.tag = "PublicKey"
    /\ ~CorrectlySigned(last.sig, KeyOfAddress, last.m)

\* A call raced: it loaded Signer::Address and, by the time it returned,
\* another caller had replaced the Signer.
Raced == HasReturned /\ last.snap.tag = "Address" /\ last.pre.tag = "PublicKey"

\* C7: a caller with a correctly produced signature that races with another
\* caller's upgrade (it loaded Address, the other stored first) still returns
\* Ok(true), as does every caller whose store is not the first.
C7_RacersAllTrue ==
    (Raced /\ CorrectlySigned(last.sig, KeyOfAddress, last.m))
        => last.res = OkTrue

\* Two callers with the same valid signature both loaded Address; the second
\* to store returned Ok(true) like the first.
C7_Witness ==
    /\ Raced
    /\ CorrectlySigned(last.sig, KeyOfAddress, last.m)
    /\ upgradedBy.m = last.m
    /\ upgradedBy.sig = last.sig
    /\ last.res = OkTrue

\* C8: all callers waiting to store hold the same value, PublicKey of the key
\* of the verifier's address; once the Signer is PublicKey it holds exactly
\* that value, and a later store does not change it.
C8_RacersConverge ==
    /\ \A c \in Storing : Pending(c) = SignerPublicKey(KeyOfAddress)
    /\ signer.tag = "PublicKey" => signer = SignerPublicKey(KeyOfAddress)
    /\ (HasReturned /\ last.stored /\ last.pre.tag = "PublicKey") => signer = last.pre

\* A second store, from a different signature, left the Signer as the first did.
C8_Witness ==
    /\ Raced
    /\ last.stored
    /\ upgradedBy.sig # last.sig
    /\ signer = last.pre

RowsBy(i) == {n \in 1..Len(rows) : rows[n].by = i}
NotificationsBy(i) == {n \in 1..Len(notifications) : notifications[n].by = i}

\* C9: an invocation whose allocation the AllocationMonitor reported
\* ineligible ends with an error, and no row and no notification come from it.
C9_IneligibleAllocation ==
    \A i \in Tasks :
        (task[i].pc # "idle" /\ ~task[i].allocOk) =>
            /\ task[i].pc = "done"
            /\ ~task[i].result.ok
            /\ RowsBy(i) = {}
            /\ NotificationsBy(i) = {}

\* Rejected for its allocation although correctly signed by an eligible sender.
C9_Witness ==
    \E i \in Tasks, k \in WalletKeys :
        /\ task[i].pc = "done"
        /\ ~task[i].allocOk
        /\ task[i].receipt = SignReceipt(DomainSeparator, task[i].receipt.message, k)
        /\ WalletAddress(k) \in eligibleSenders
        /\ ~task[i].result.ok

\* The EscrowMonitor was asked, after the allocation passed, and said no.
SenderReportedIneligible(i) ==
    /\ task[i].allocOk
    /\ "escrow" \in {task[i].steps[n] : n \in 1..Len(task[i].steps)}
    /\ ~task[i].senderOk

\* C10: an invocation whose allocation was reported eligible and whose
\* recovered signer the EscrowMonitor reported ineligible ends with an error,
\* and no row and no notification come from it.
C10_IneligibleSender ==
    \A i \in Tasks :
        SenderReportedIneligible(i) =>
            /\ task[i].pc = "done"
            /\ ~task[i].result.ok
            /\ RowsBy(i) = {}
            /\ NotificationsBy(i) = {}

C10_Witness ==
    \E i \in Tasks :
        /\ SenderReportedIneligible(i)
        /\ task[i].pc = "done"
        /\ task[i].receipt_signer \in Senders
        /\ ~task[i].result.ok
        /\ Len(rows) > 0

\* C21: no caller waits for another.  Whatever the other callers have done
\* or left undone, a caller whose store is pending can take it and return
\* (its second and last step), and a free caller can run verify on any
\* message and signature: it returns in that step or is left with its store.
C21_NeverBlocked ==
    /\ \A c \in Storing : ENABLED Store(c)
    /\ SomeCallerIdle =>
          \A m \in Msgs, sig \in Sigs :
              ENABLED (\/ VerifyPublicKey(m, sig)
                       \/ VerifyRecoverFails(m, sig)
                       \/ VerifyMismatch(m, sig)
                       \/ VerifyMatch(m, sig))

\* A caller still holds the Signer::Address it loaded, its store pending,
\* after another caller has replaced the Signer.
C21_Witness ==
    /\ signer.tag = "PublicKey"
    /\ \E c \in Storing : c.snap.tag = "Address"
    /\ HasReturned
    /\ last.stored

\* The Signer of the other state of the same verifier.
OtherState(snap) ==
    IF snap.tag = "Address" THEN SignerPublicKey(KeyOfAddress)
    ELSE SignerAddress(address)

\* C22: the result of a call is the result verify gives for the same message
\* and signature in the other state of the verifier (Address for a call that
\* loaded PublicKey, PublicKey of the address's key for one that loaded Address).
C22_SameResultInBothStates ==
    HasReturned =>
        /\ last.res = VerifyResult(last.snap, last.m, last.sig)
        /\ last.res = VerifyResult(OtherState(last.snap), last.m, last.sig)

\* The signature is recoverable, in lower-S form, and carries the recovery id
\* that belongs to its (r, s).
Canonical(sig) == sig.kind = "ecdsa" /\ ~sig.highS /\ sig.recid = "ok"

\* C22, amended: for a signature in canonical form, by whichever key and over
\* whichever message, the result of a call is the result verify gives for the
\* same message and signature in the other state of the verifier.
C22_CanonicalSameResult ==
    (HasReturned /\ Canonical(last.sig)) =>
        /\ last.res = VerifyResult(last.snap, last.m, last.sig)
        /\ last.res = VerifyResult(OtherState(last.snap), last.m, last.sig)

\* After the upgrade, a call with the address key's signature over another
\* message returned Ok(false), as the Address arm does for it.
C22_Witness ==
    /\ HasReturned
    /\ last.snap.tag = "PublicKey"
    /\ Canonical(last.sig)
    /\ last.sig.key = KeyOfAddress
    /\ last.sig.signed # last.m
    /\ last.res = OkFalse
    /\ VerifyResult(SignerAddress(address), last.m, last.sig) = OkFalse

\* C23: the Signer changes only in the step in which a call that loaded
\* Signer::Address stores and returns Ok(true); a call that returned
\* Ok(false) or Err, or that loaded Signer::PublicKey, did not store and the
\* Signer is what it was before the call returned; and once a call has
\* returned Ok(true) the Signer is PublicKey.
C23_FrameOfVerify ==
    /\ [](HasReturned =>
            /\ (last.res # OkTrue \/ last.snap.tag = "PublicKey") =>
                  ~last.stored /\ signer = last.pre
            /\ last.res = OkTrue => signer.tag = "PublicKey")
    /\ [][signer' # signer =>
            /\ last'.stored
            /\ last'.snap.tag = "Address"
            /\ last'.res = OkTrue]_vars

\* A call in the Address arm returned Ok(true) for a signature in high-S form
\* and the Signer is now the PublicKey it recovered.
C23_Witness ==
    /\ HasReturned
    /\ last.snap.tag = "Address"
    /\ last.sig.kind = "ecdsa"
    /\ last.sig.highS
    /\ last.res = OkTrue
    /\ last.stored
    /\ last.pre.tag = "Address"
    /\ signer = SignerPublicKey(KeyOfAddress)

\* --------------------------------------------- properties of the TapManager
StepsOf(i) == {task[i].steps[n] : n \in 1..Len(task[i].steps)}

\* The value of a lowercase hex digit, 16 for any other character.
HexValue(ch) ==
    IF \E v \in 1..16 : HexDigits[v] = ch
    THEN (CHOOSE v \in 1..16 : HexDigits[v] = ch) - 1
    ELSE 16

\* The 20 bytes a stored allocation_id text denotes: 40 lowercase hex digits
\* and nothing else; <<>> when the text is not of that form.
ParseAddress(str) ==
    IF Len(str) = 40 /\ \A n \in 1..40 : HexValue(str[n]) < 16
    THEN [b \in 1..20 |-> 16 * HexValue(str[2 * b - 1]) + HexValue(str[2 * b])]
    ELSE <<>>

\* The receipt of invocation i is signed by a wallet under the Domain
\* Separator, and both monitors answered "eligible" to the invocation.
FullyEligible(i) ==
    /\ \E k \in WalletKeys :
          task[i].receipt = SignReceipt(DomainSeparator, task[i].receipt.message, k)
    /\ task[i].allocOk
    /\ task[i].senderOk

\* Row n and notification n are those of invocation i's receipt.
RowOfReceipt(n, i) ==
    /\ ParseAddress(rows[n].allocation_id) = task[i].receipt.message.allocation_id
    /\ rows[n].timestamp_ns.int_val = task[i].receipt.message.timestamp_ns
    /\ rows[n].timestamp_ns.scale = 0
NotificationOfReceipt(n, i) ==
    /\ ParseAddress(notifications[n].allocation_id)
         = task[i].receipt.message.allocation_id
    /\ notifications[n].timestamp_ns = task[i].receipt.message.timestamp_ns

\* C11: an invocation on a correctly signed receipt, to which both monitors
\* answered eligible and whose insert did not fail, returns Ok(()); exactly
\* one row and exactly one notification come from it, and their allocation_id
\* and timestamp_ns are those of the receipt.
C11_AcceptedStoredOnce ==
    \A i \in Tasks :
        (task[i].pc = "done" /\ FullyEligible(i) /\ task[i].result.cause # "sqlx") =>
            /\ task[i].result = OkUnit
            /\ Cardinality(RowsBy(i)) = 1
            /\ Cardinality(NotificationsBy(i)) = 1
            /\ \A n \in RowsBy(i) : RowOfReceipt(n, i)
            /\ \A n \in NotificationsBy(i) : NotificationOfReceipt(n, i)

C11_Witness ==
    \E i \in Tasks :
        /\ task[i].pc = "done"
        /\ FullyEligible(i)
        /\ task[i].result = OkUnit
        /\ \E n \in RowsBy(i) : RowOfReceipt(n, i)
        /\ \E n \in NotificationsBy(i) : NotificationOfReceipt(n, i)

\* C12: an invocation returns Ok(()) only if its insert put its row in the
\* table; an invocation whose insert failed has returned an error, ran the
\* insert once, left no row and no notification, and takes no further step.
C12_StoreFailureIsError ==
    /\ [](\A i \in Tasks :
            /\ task[i].result.ok => Cardinality(RowsBy(i)) = 1
            /\ (task[i].pc = "done" /\ "insert" \in StepsOf(i) /\ RowsBy(i) = {}) =>
                  /\ ~task[i].result.ok
                  /\ Len(task[i].steps) = 4
                  /\ NotificationsBy(i) = {})
    /\ [][\A i \in Tasks :
            (task[i].pc = "done" /\ "insert" \in StepsOf(i) /\ RowsBy(i) = {})
                => task'[i] = task[i]]_vars

\* An insert failed while another invocation's succeeded.
C12_Witness ==
    \E i, j \in Tasks :
        /\ task[i].pc = "done"
        /\ "insert" \in StepsOf(i)
        /\ RowsBy(i) = {}
        /\ ~task[i].result.ok
        /\ task[j].result.ok

\* C13: two invocations that failed for different reasons hold errors of
\* different kinds.
C13_DistinctKinds ==
    \A i, j \in Tasks :
        (/\ task[i].pc = "done" /\ ~task[i].result.ok
         /\ task[j].pc = "done" /\ ~task[j].result.ok
         /\ task[i].result.cause # task[j].result.cause)
            => task[i].result.kind # task[j].result.kind

StepOrder == <<"allocation", "recover", "escrow", "insert">>
IsPrefix(s, t) == Len(s) <= Len(t) /\ s = SubSeq(t, 1, Len(s))

\* C14: the steps an invocation has taken are an initial part of: allocation
\* check, signer recovery, sender check, insert; it went past a step only when
\* that step succeeded; and an invocation whose allocation was reported
\* ineligible took the allocation check only and holds the allocation error.
C14_StepsInOrder ==
    \A i \in Tasks :
        /\ IsPrefix(task[i].steps, StepOrder)
        /\ (Len(task[i].steps) >= 2 \/ task[i].pc = "recover") => task[i].allocOk
        /\ (Len(task[i].steps) >= 3 \/ task[i].pc = "sender") =>
              /\ task[i].receipt_signer # NoAddress
              /\ task[i].receipt_signer
                   = recover_signer(task[i].receipt, DomainSeparator)
        /\ (Len(task[i].steps) >= 4 \/ task[i].pc = "insert") => task[i].senderOk
        /\ (task[i].pc # "idle" /\ ~task[i].allocOk) =>
              /\ task[i].steps = <<"allocation">>
              /\ task[i].result = ErrAllocation(task[i].receipt.message.allocation_id)

\* One invocation was stopped at the allocation check although its signature
\* cannot be recovered from; another went through all four steps.
C14_Witness ==
    \E i, j \in Tasks :
        /\ task[i].pc = "done"
        /\ ~task[i].allocOk
        /\ task[i].receipt.signature = BadSig
        /\ task[i].steps = <<"allocation">>
        /\ task[j].steps = StepOrder

\* C15: the rows and the notifications change only in the step in which an
\* invocation's insert succeeds; an invocation that has not run its insert, or
\* was cancelled, has no row and no notification.
C15_NoEffectBeforeInsert ==
    /\ [](\A i \in Tasks :
            (task[i].pc = "cancelled" \/ "insert" \notin StepsOf(i)) =>
                RowsBy(i) = {} /\ NotificationsBy(i) = {})
    /\ [][(rows' # rows \/ notifications' # notifications) =>
            \E i \in Tasks : /\ task[i].pc = "insert"
                             /\ task'[i].pc = "done"
                             /\ task'[i].result.ok]_vars

\* An invocation was cancelled after both checks passed, while another's row
\* is in the table.
C15_Witness ==
    \E i \in Tasks :
        /\ task[i].pc = "cancelled"
        /\ task[i].senderOk
        /\ RowsBy(i) = {}
        /\ Len(rows) > 0

\* C16: a call that loaded Signer::Address and whose signature fails recovery
\* returns Err("Failed to recover signature") without storing, and the Signer
\* is the same Signer::Address before and after.
C16_RecoveryFailure ==
    (/\ HasReturned
     /\ last.snap.tag = "Address"
     /\ recover(MessageDigest(last.m), last.sig) = NoKey)
        => /\ last.res = "Err(Failed to recover signature)"
           /\ ~last.stored
           /\ last.pre = SignerAddress(address)
           /\ signer = SignerAddress(address)

\* The signature is a wallet's own, with a recovery id that names no point.
C16_Witness ==
    /\ HasReturned
    /\ last.snap.tag = "Address"
    /\ last.sig.kind = "ecdsa"
    /\ last.sig.recid = "overflow"
    /\ last.sig.key = KeyOfAddress
    /\ last.res = "Err(Failed to recover signature)"
    /\ signer = SignerAddress(address)

\* C17: an invocation that ran recover_signer on a receipt whose signature no
\* key can be recovered from has returned the recovery error; the EscrowMonitor
\* was not consulted, and no row and no notification come from it.
C17_RecoverSignerFailure ==
    \A i \in Tasks :
        (task[i].receipt.signature.kind = "bad" /\ "recover" \in StepsOf(i)) =>
            /\ task[i].pc = "done"
            /\ task[i].result = ErrRecoverSigner
            /\ "escrow" \notin StepsOf(i)
            /\ RowsBy(i) = {}
            /\ NotificationsBy(i) = {}

\* The allocation was eligible, recovery failed.
C17_Witness ==
    \E i \in Tasks :
        /\ task[i].receipt.signature.kind = "bad"
        /\ task[i].allocOk
        /\ task[i].steps = <<"allocation", "recover">>
        /\ task[i].result = ErrRecoverSigner

Accepted == {i \in Tasks : task[i].result = OkUnit}

\* C18: the table holds as many rows, and as many notifications were sent, as
\* invocations returned Ok(()), also when they carried the same receipt.
C18_NoDeduplication ==
    /\ Len(rows) = Cardinality(Accepted)
    /\ Len(notifications) = Cardinality(Accepted)

\* The same receipt was accepted twice and is stored twice.
C18_Witness ==
    \E i, j \in Tasks :
        /\ i # j
        /\ task[i].result = OkUnit
        /\ task[j].result = OkUnit
        /\ task[i].receipt = task[j].receipt
        /\ Len(rows) = 2
        /\ rows[1].receipt = rows[2].receipt
        /\ Len(notifications) = 2

\* The invocations on fully eligible receipts whose insert has run and did
\* not fail.
Inserters ==
    {i \in Tasks : /\ task[i].pc = "done"
                   /\ FullyEligible(i)
                   /\ "insert" \in StepsOf(i)
                   /\ task[i].result.cause # "sqlx"}

\* C19: whatever the interleaving, the table holds one whole row for each
\* invocation of Inserters and nothing else, with ids all different, and
\* notification n is the one of row n; each row and notification carries the
\* allocation_id, timestamp_ns and receipt of the invocation it came from.
C19_ConcurrentInserts ==
    /\ Len(rows) = Cardinality(Inserters)
    /\ Len(notifications) = Cardinality(Inserters)
    /\ \A i \in Inserters : Cardinality(RowsBy(i)) = 1
    /\ \A n, k \in 1..Len(rows) : rows[n].id = rows[k].id => n = k
    /\ \A n \in 1..Len(rows) :
          /\ rows[n].by \in Inserters
          /\ RowOfReceipt(n, rows[n].by)
          /\ rows[n].receipt = task[rows[n].by].receipt
          /\ notifications[n].id = rows[n].id
          /\ NotificationOfReceipt(n, rows[n].by)

\* Two invocations on different receipts ran at once; the one started second
\* in the numbering inserted first.
C19_Witness ==
    /\ Len(rows) = 2
    /\ rows[1].by = 2
    /\ rows[2].by = 1
    /\ rows[1].receipt.message # rows[2].receipt.message
    /\ Inserters = Tasks

\* C20: every stored row comes from an invocation to which the
\* AllocationMonitor answered eligible for the receipt's allocation and then
\* the EscrowMonitor answered eligible for the signer recovered from the
\* receipt, whatever the monitors hold by the time of the insert.
C20_CheckedBeforeStored ==
    \A n \in 1..Len(rows) :
        LET t == task[rows[n].by] IN
        /\ t.receipt = rows[n].receipt
        /\ t.allocOk
        /\ t.senderOk
        /\ t.receipt_signer = recover_signer(rows[n].receipt, DomainSeparator)
        /\ t.steps = StepOrder

\* A row was written when a monitor no longer held its allocation or sender.
C20_Witness ==
    \E n \in 1..Len(rows) :
        /\ rows[n].stale
        /\ task[rows[n].by].allocOk
        /\ task[rows[n].by].senderOk

====
